---- MODULE Spec2Model ----
(***************************************************************************)
(* IPMapper: RIR delegated files -> country-tagged prefixes -> snapshot    *)
(* CSVs -> radix-trie longest-prefix-match lookup.                         *)
(*                                                                         *)
(* Addresses are scaled down: an IPv4 address has V4Bits bits and an IPv6  *)
(* address V6Bits bits (32 and 128 in the program).  Python integers are   *)
(* unbounded, so no arithmetic here wraps.                                 *)
(***************************************************************************)
EXTENDS Integers, Sequences, FiniteSets, TLC

VARIABLES
    cidr,    \* one call of RIRParser._ipv4_to_cidrs: its arguments and result
    radix,   \* one RadixNode tree, the pairs inserted into it, the last lookup
    dedup,   \* one call of RIRParser.deduplicate_entries
    agg,     \* one call of PrefixAggregator.aggregate_prefixes
    snap,    \* aggregate -> write CSV -> load CSV, for one list of pairs
    upd,     \* one update run writing over a committed snapshot, step by step
    runs,    \* two update runs over the same registry files
    eng,     \* one IPLookup instance, its data directory and the last call on it
    pl       \* one call of RIRParser._parse_line: the line and the entries

vars == <<cidr, radix, dedup, agg, snap, upd, runs, eng, pl>>

\* The value of a variable that the specification at hand does not use.
Idle == [pc |-> "idle"]

----------------------------------------------------------------------------
(* Bounds of the model *)

V4Bits == 3
V6Bits == 3

----------------------------------------------------------------------------
(* Addresses and prefixes (ipaddress.IPv4Network / IPv6Network) *)

RECURSIVE Pow2(_)
Pow2(n) == IF n <= 0 THEN 1 ELSE 2 * Pow2(n - 1)

\* int.bit_length()
RECURSIVE BitLength(_)
BitLength(n) == IF n <= 0 THEN 0 ELSE 1 + BitLength(n \div 2)

MaxPrefixLen(version) == IF version = 4 THEN V4Bits ELSE V6Bits

AllOnes(version) == Pow2(MaxPrefixLen(version)) - 1

Addresses(version) == 0..AllOnes(version)

Net(version, addr, len) == [version |-> version, addr |-> addr, len |-> len]

NumAddresses(p) == Pow2(MaxPrefixLen(p.version) - p.len)

BroadcastAddress(p) == p.addr + NumAddresses(p) - 1

\* The addresses a network holds.
Hosts(p) == p.addr..BroadcastAddress(p)

\* Every network object the ipaddress constructors accept (strict: no host bits).
Networks(version) ==
    { p \in [version : {version}, addr : Addresses(version),
             len : 0..MaxPrefixLen(version)] :
        p.addr % Pow2(MaxPrefixLen(version) - p.len) = 0 }

SeqToSet(s) == { s[i] : i \in 1..Len(s) }

----------------------------------------------------------------------------
(* RIRParser._ipv4_to_cidrs *)

\* The inner while loop: the largest aligned block at current that ends by end_int.
RECURSIVE MaxBlockSize(_, _, _)
MaxBlockSize(current, end_int, max_block_size) ==
    IF /\ current % (max_block_size * 2) = 0
       /\ current + max_block_size * 2 - 1 <= end_int
    THEN MaxBlockSize(current, end_int, max_block_size * 2)
    ELSE max_block_size

\* A mutant of BlockSizeAt: always the smallest block (a correct cover, not minimal).
BlockSizeOne(current, end_int) == 1

BlockSizeAt(current, end_int) == MaxBlockSize(current, end_int, 1)

\* The outer while loop.  ipaddress raises ValueError for an address beyond the
\* address space or a prefix length outside [0, bits]; the except clause then
\* throws the blocks found so far away and returns [].
RECURSIVE CidrLoop(_, _, _)
CidrLoop(current, end_int, cidrs) ==
    IF current > end_int THEN cidrs
    ELSE LET max_block_size == BlockSizeAt(current, end_int)
             prefix_len == IF max_block_size = 1 THEN V4Bits
                           ELSE V4Bits - BitLength(max_block_size - 1)
         IN  IF \/ current \notin Addresses(4)
                \/ prefix_len \notin 0..V4Bits
                \/ current % Pow2(V4Bits - prefix_len) # 0
             THEN <<>>
             ELSE CidrLoop(current + max_block_size, end_int,
                           Append(cidrs, Net(4, current, prefix_len)))

\* start_ip is the start address as an integer; text that IPv4Address rejects is
\* an integer outside the address space.
ipv4_to_cidrs(start_ip, count) ==
    IF start_ip \notin Addresses(4) THEN <<>>
    ELSE CidrLoop(start_ip, start_ip + count - 1, <<>>)

CidrInputs == [start : -1..(AllOnes(4) + 1), count : -1..(AllOnes(4) + 2)]

InitCidr ==
    /\ \E in \in CidrInputs : cidr = [pc |-> "call", start |-> in.start, count |-> in.count,
                                      cidrs |-> <<>>]
    /\ radix = Idle /\ dedup = Idle /\ agg = Idle /\ snap = Idle /\ upd = Idle
    /\ runs = Idle /\ eng = Idle /\ pl = Idle

Ipv4ToCidrs ==
    /\ cidr.pc = "call"
    /\ cidr' = [cidr EXCEPT !.pc = "done",
                            !.cidrs = ipv4_to_cidrs(cidr.start, cidr.count)]
    /\ UNCHANGED <<radix, dedup, agg, snap, upd, runs, eng, pl>>

SpecCidr == InitCidr /\ [][Ipv4ToCidrs]_vars

\* Whether at most n networks, each inside range, cover what is left of it: the
\* search tries every network that holds the least address still uncovered.
RECURSIVE CoverExists(_, _, _)
CoverExists(left, range, n) ==
    \/ left = {}
    \/ /\ n > 0
       /\ LET least == CHOOSE a \in left : \A b \in left : a <= b
          IN  \E p \in Networks(4) :
                /\ least \in Hosts(p)
                /\ Hosts(p) \subseteq range
                /\ CoverExists(left \ Hosts(p), range, n - 1)

CidrInSpace ==
    /\ cidr.pc = "done"
    /\ cidr.start \in Addresses(4)
    /\ cidr.count >= 1
    /\ cidr.start + cidr.count - 1 \in Addresses(4)

\* C1: for a start address and a host count >= 1 whose range lies inside the
\* address space, the blocks _ipv4_to_cidrs returns are pairwise disjoint, their
\* union is exactly [start, start+count-1], and no set of fewer CIDR blocks has
\* that union.
C1_MinimalExactCover ==
    CidrInSpace =>
        LET out == cidr.cidrs
            range == cidr.start..(cidr.start + cidr.count - 1)
        IN  /\ \A i, j \in 1..Len(out) : i # j => Hosts(out[i]) \cap Hosts(out[j]) = {}
            /\ UNION { Hosts(out[i]) : i \in 1..Len(out) } = range
            /\ \A i \in 1..Len(out) : out[i] \in Networks(4)
            /\ ~CoverExists(range, range, Len(out) - 1)

\* A range that needs blocks of several sizes: [1, 6] is 1/3, 2/2, 4/2, 6/3.
C1_Witness ==
    /\ CidrInSpace
    /\ Len(cidr.cidrs) >= 4
    /\ \E i, j \in 1..Len(cidr.cidrs) : cidr.cidrs[i].len # cidr.cidrs[j].len

----------------------------------------------------------------------------
(* RadixNode (lookup.py) *)

MaxInserts == 3

\* Python's None.  Country codes are upper-cased text and never equal it.
None == "None"

Codes == {"AA", "BB"}

\* format(n, "0<width>b"): the bits of n, most significant first.
ToBits(n, width) == [i \in 1..width |-> (n \div Pow2(width - i)) % 2]

\* IPLookup._ip_to_bits for an address object of the given family.
ip_to_bits(version, ip) == ToBits(ip, MaxPrefixLen(version))

\* IPLookup._prefix_to_bits: the network portion, binary[:prefixlen].
prefix_to_bits(prefix) ==
    SubSeq(ToBits(prefix.addr, MaxPrefixLen(prefix.version)), 1, prefix.len)

\* RadixNode.__init__.  A tree is a function from the path of each node that
\* exists (the bits leading to it from the root) to the node's fields; the
\* children dict of a node is the set of bits b with Append(path, b) in the tree.
NewNode == [data |-> None, is_terminal |-> FALSE]

EmptyTree == (<<>> :> NewNode)

Children(tree, path) == { b \in {0, 1} : Append(path, b) \in DOMAIN tree }

\* RadixNode.insert on the node at the path prefix_bits[:depth].
RECURSIVE insert(_, _, _, _)
insert(tree, prefix_bits, country_code, depth) ==
    LET self == SubSeq(prefix_bits, 1, depth)
    IN  IF depth = Len(prefix_bits)
        THEN [tree EXCEPT ![self] = [data |-> country_code, is_terminal |-> TRUE]]
        ELSE LET child == Append(self, prefix_bits[depth + 1])
                 grown == IF child \in DOMAIN tree THEN tree
                          ELSE tree @@ (child :> NewNode)
             IN  insert(grown, prefix_bits, country_code, depth + 1)

\* A mutant of PreferChild: the node's own match wins over the child's (the
\* shortest match instead of the longest).
PreferSelf(child_result, best_match) ==
    IF best_match # None THEN best_match ELSE child_result

\* A mutant of PreferChild: the child's answer is returned as it is, without
\* falling back to the node's own match.
PreferChildOnly(child_result, best_match) == child_result

\* "return child_result if child_result is not None else best_match"
PreferChild(child_result, best_match) ==
    IF child_result # None THEN child_result ELSE best_match

\* RadixNode.lookup on the node at the path ip_bits[:depth].
RECURSIVE lookup(_, _, _)
lookup(tree, ip_bits, depth) ==
    LET self == SubSeq(ip_bits, 1, depth)
        best_match == IF tree[self].is_terminal THEN tree[self].data ELSE None
    IN  IF depth >= Len(ip_bits) \/ Children(tree, self) = {}
        THEN best_match
        ELSE IF ip_bits[depth + 1] \in Children(tree, self)
             THEN PreferChild(lookup(tree, ip_bits, depth + 1), best_match)
             ELSE best_match

\* One tree of one family.  inserted remembers the (prefix, code) pairs given to
\* insert; ip and result are the last lookup.
InitRadix ==
    /\ \E version \in {4, 6} :
         radix = [pc |-> "ready", version |-> version, tree |-> EmptyTree,
                  inserted |-> {}, ip |-> -1, result |-> None]
    /\ cidr = Idle /\ dedup = Idle /\ agg = Idle /\ snap = Idle /\ upd = Idle
    /\ runs = Idle /\ eng = Idle /\ pl = Idle

\* insert of a prefix not inserted before, with any code.
Insert ==
    /\ radix.pc = "ready"
    /\ Cardinality(radix.inserted) < MaxInserts
    /\ \E prefix \in Networks(radix.version), cc \in Codes :
         /\ \A e \in radix.inserted : e.prefix # prefix
         /\ radix' = [radix EXCEPT
                !.tree = insert(radix.tree, prefix_to_bits(prefix), cc, 0),
                !.inserted = radix.inserted \cup {[prefix |-> prefix, cc |-> cc]},
                !.ip = -1, !.result = None]
    /\ UNCHANGED <<cidr, dedup, agg, snap, upd, runs, eng, pl>>

Lookup ==
    /\ radix.pc = "ready"
    /\ \E ip \in Addresses(radix.version) :
         radix' = [radix EXCEPT
                !.ip = ip,
                !.result = lookup(radix.tree, ip_to_bits(radix.version, ip), 0)]
    /\ UNCHANGED <<cidr, dedup, agg, snap, upd, runs, eng, pl>>

SpecRadix == InitRadix /\ [][Insert \/ Lookup]_vars

\* The pairs whose prefix holds ip.
Covering(pairs, ip) == { e \in pairs : ip \in Hosts(e.prefix) }

\* The code of the longest prefix of pairs that holds ip, None when none does.
LongestMatch(pairs, ip) ==
    LET cover == Covering(pairs, ip)
    IN  IF cover = {} THEN None
        ELSE (CHOOSE e \in cover : \A f \in cover : f.prefix.len <= e.prefix.len).cc

\* C2: after any inserts of pairs with distinct prefixes, lookup of any address of
\* the family returns the code of the longest inserted prefix that holds the
\* address, and None exactly when no inserted prefix holds it.
C2_LongestPrefixMatch ==
    radix.pc = "ready" =>
        /\ \A ip \in Addresses(radix.version) :
             /\ lookup(radix.tree, ip_to_bits(radix.version, ip), 0)
                    = LongestMatch(radix.inserted, ip)
             /\ (lookup(radix.tree, ip_to_bits(radix.version, ip), 0) = None)
                    <=> (Covering(radix.inserted, ip) = {})
        /\ radix.ip # -1 => radix.result = LongestMatch(radix.inserted, radix.ip)

\* A lookup answered by the longest of three nested prefixes with differing codes.
C2_Witness ==
    /\ radix.pc = "ready"
    /\ radix.ip # -1
    /\ Cardinality(Covering(radix.inserted, radix.ip)) = 3
    /\ \E e, f \in Covering(radix.inserted, radix.ip) :
         /\ e.prefix.len < f.prefix.len
         /\ e.cc # f.cc
         /\ radix.result = f.cc

\* The tree of a fresh engine given a set of pairs with distinct prefixes (the
\* order of the inserts does not matter for such a set).
RECURSIVE TreeOf(_)
TreeOf(pairs) ==
    IF pairs = {} THEN EmptyTree
    ELSE LET e == CHOOSE x \in pairs : TRUE
         IN  insert(TreeOf(pairs \ {e}), prefix_to_bits(e.prefix), e.cc, 0)

\* The pairs of the set that hold ip and are less specific than P.
LessSpecific(pairs, ip, P) ==
    { Q \in Covering(pairs, ip) : Q.prefix.len < P.prefix.len }

\* The statement of C11 as written: for every address ip and every inserted
\* prefix P that holds ip and has the code of SOME less specific inserted prefix
\* holding ip, the lookup of ip over the set without P equals the lookup over
\* the full set.  (A prefix of another code lying between the two breaks it.)
C11_AsWritten ==
    radix.pc = "ready" =>
        \A ip \in Addresses(radix.version) :
            \A P \in Covering(radix.inserted, ip) :
                (\E Q \in LessSpecific(radix.inserted, ip, P) : Q.cc = P.cc)
                    => lookup(TreeOf(radix.inserted \ {P}), ip_to_bits(radix.version, ip), 0)
                         = lookup(radix.tree, ip_to_bits(radix.version, ip), 0)

\* C11 (amended): for every address ip and every inserted prefix P that holds ip
\* and has the code of the MOST specific of the less specific inserted prefixes
\* holding ip, the lookup of ip over the set without P returns the same code as
\* the lookup over the full set.
C11_RemovalKeepsAnswer ==
    radix.pc = "ready" =>
        \A ip \in Addresses(radix.version) :
            \A P \in Covering(radix.inserted, ip) :
                LET less == LessSpecific(radix.inserted, ip, P)
                IN  (/\ less # {}
                     /\ LongestMatch(less, ip) = P.cc)
                    => lookup(TreeOf(radix.inserted \ {P}), ip_to_bits(radix.version, ip), 0)
                         = lookup(radix.tree, ip_to_bits(radix.version, ip), 0)

\* A lookup answered by the longest prefix P holding the address, where the
\* next longest prefix holding it has the same code and a third, of another
\* code, is in the tree as well.
C11_Witness ==
    /\ radix.pc = "ready"
    /\ radix.ip # -1
    /\ Cardinality(radix.inserted) = 3
    /\ \E P \in Covering(radix.inserted, radix.ip) :
         /\ \A Q \in Covering(radix.inserted, radix.ip) : Q.prefix.len <= P.prefix.len
         /\ LessSpecific(radix.inserted, radix.ip, P) # {}
         /\ LongestMatch(LessSpecific(radix.inserted, radix.ip, P), radix.ip) = P.cc
         /\ radix.result = P.cc
    /\ \E e \in radix.inserted : e.cc # radix.result

----------------------------------------------------------------------------
(* Text of addresses and networks (str(prefix), ipaddress constructors) *)

\* The address in its family's notation, as its two groups of digits (dotted
\* for IPv4, colon-separated for IPv6).
AddrToStr(version, addr) ==
    [syntax |-> IF version = 4 THEN "dotted" ELSE "colon",
     groups |-> <<addr \div 4, addr % 4>>]

\* str(network): "<address>/<prefixlen>".
NetToStr(prefix) ==
    [address |-> AddrToStr(prefix.version, prefix.addr), prefixlen |-> prefix.len]

----------------------------------------------------------------------------
(* RIRParser.deduplicate_entries *)

MaxEntries == 3

\* The keys of RIR_SOURCES, in the order of the dict.
RIR_SOURCES == <<"apnic", "arin", "ripe", "lacnic", "afrinic">>

\* Python compares registry names as strings: the rank of each in that order.
StrRank(registry) ==
    CASE registry = "afrinic" -> 1
      [] registry = "apnic" -> 2
      [] registry = "arin" -> 3
      [] registry = "lacnic" -> 4
      [] registry = "ripe" -> 5

\* RIREntry.  Dates are YYYYMMDD numbers, which order as the dates do.
RIREntry(registry, cc, type, start, value, date, status, prefix) ==
    [registry |-> registry, cc |-> cc, type |-> type, start |-> start,
     value |-> value, date |-> date, status |-> status, prefix |-> prefix]

\* A mutant of KeyLess: the registry is compared the other way round.
KeyLessRegistryAscending(a, b) ==
    \/ a.date < b.date
    \/ a.date = b.date /\ StrRank(a.registry) > StrRank(b.registry)

\* key=lambda x: (x.date, x.registry): whether a's key is less than b's.
KeyLess(a, b) ==
    \/ a.date < b.date
    \/ a.date = b.date /\ StrRank(a.registry) < StrRank(b.registry)

\* sorted(group, key=..., reverse=True): descending by key; the sort is stable,
\* so entries with equal keys keep the order they have in group.
SortedGroup(group) ==
    LET n == Len(group)
        Before(i, j) == \/ KeyLess(group[j], group[i])
                        \/ /\ ~KeyLess(group[i], group[j])
                           /\ ~KeyLess(group[j], group[i])
                           /\ i < j
        Rank(i) == Cardinality({ j \in 1..n : Before(j, i) })
    IN  [k \in 1..n |-> group[CHOOSE i \in 1..n : Rank(i) = k - 1]]

\* The keys of prefix_groups in the order of the dict: each prefix where it
\* first appears in entries.
PrefixKeys(entries) ==
    LET firsts == { i \in 1..Len(entries) :
                      \A j \in 1..(i - 1) : entries[j].prefix # entries[i].prefix }
        Pos(i) == Cardinality({ j \in firsts : j < i })
    IN  [k \in 1..Cardinality(firsts) |->
            entries[CHOOSE i \in firsts : Pos(i) = k - 1].prefix]

\* prefix_groups[prefix]
PrefixGroup(entries, prefix) ==
    LET Same(e) == e.prefix = prefix
    IN  SelectSeq(entries, Same)

Triple(e) == <<e.registry, e.cc, e.date>>

\* What the loop over prefix_groups appends to deduplicated for one group.
ChosenEntry(group) ==
    IF Len(group) = 1 THEN group[1] ELSE SortedGroup(group)[1]

\* A mutant of HasConflict: a conflict is recorded for every group of several
\* entries, whatever their country codes.
HasConflictAnyGroup(group) == Len(group) > 1

\* Whether the loop appends a conflict for the group.
HasConflict(group) ==
    /\ Len(group) # 1
    /\ Cardinality({ group[i].cc : i \in 1..Len(group) }) > 1

ConflictOf(prefix, group) ==
    [prefix |-> NetToStr(prefix),
     entries |-> [i \in 1..Len(group) |-> Triple(group[i])],
     chosen |-> Triple(SortedGroup(group)[1])]

RECURSIVE ConflictsFrom(_, _, _)
ConflictsFrom(entries, keys, k) ==
    IF k > Len(keys) THEN <<>>
    ELSE LET group == PrefixGroup(entries, keys[k])
         IN  (IF HasConflict(group) THEN <<ConflictOf(keys[k], group)>> ELSE <<>>)
                \o ConflictsFrom(entries, keys, k + 1)

\* deduplicate_entries: (deduplicated, conflicts).
deduplicate_entries(entries) ==
    LET keys == PrefixKeys(entries)
    IN  [deduplicated |-> [k \in 1..Len(keys) |->
                              ChosenEntry(PrefixGroup(entries, keys[k]))],
         conflicts |-> ConflictsFrom(entries, keys, 1)]

\* Entries as the parser emits them for an allocated range named by its prefix.
\* The value field is text: <<n>> stands for the numeral of n.
EntryOf(registry, cc, date, prefix) ==
    RIREntry(registry, cc, IF prefix.version = 4 THEN "ipv4" ELSE "ipv6",
             prefix.addr,
             IF prefix.version = 4 THEN <<NumAddresses(prefix)>> ELSE <<prefix.len>>,
             date, "allocated", prefix)

DedupPool ==
    { EntryOf(r, cc, d, p) : r \in {"arin", "ripe"}, cc \in Codes,
                             d \in {20190101, 20200601},
                             p \in {Net(4, 0, 1), Net(6, 0, 1)} }

SeqsUpTo(S, n) == UNION { [1..k -> S] : k \in 0..n }

InitDedup ==
    /\ \E entries \in SeqsUpTo(DedupPool, MaxEntries) :
         dedup = [pc |-> "call", entries |-> entries,
                  deduplicated |-> <<>>, conflicts |-> <<>>]
    /\ cidr = Idle /\ radix = Idle /\ agg = Idle /\ snap = Idle /\ upd = Idle
    /\ runs = Idle /\ eng = Idle /\ pl = Idle

Deduplicate ==
    /\ dedup.pc = "call"
    /\ LET out == deduplicate_entries(dedup.entries)
       IN  dedup' = [dedup EXCEPT !.pc = "done",
                                  !.deduplicated = out.deduplicated,
                                  !.conflicts = out.conflicts]
    /\ UNCHANGED <<cidr, radix, agg, snap, upd, runs, eng, pl>>

SpecDedup == InitDedup /\ [][Deduplicate]_vars

EntriesOf(entries, prefix) == { e \in SeqToSet(entries) : e.prefix = prefix }

Orderings(entries) ==
    LET n == Len(entries)
    IN  { [i \in 1..n |-> entries[f[i]]] :
            f \in { g \in [1..n -> 1..n] : \A i, j \in 1..n : g[i] = g[j] => i = j } }

\* The (prefix, registry, cc, date) of the entries a list holds.
ChoiceOf(deduplicated) ==
    { <<e.prefix, e.registry, e.cc, e.date>> : e \in SeqToSet(deduplicated) }

\* C22: for any two orderings of the same bag of entries, deduplicate_entries
\* emits for every prefix an entry with the same (registry, cc, date), also
\* when two entries of a prefix have the same date and registry but different
\* country codes.
C22_OrderIndependent ==
    dedup.pc = "done" =>
        \A other \in Orderings(dedup.entries) :
            ChoiceOf(deduplicate_entries(other).deduplicated)
                = ChoiceOf(dedup.deduplicated)

\* C4: a conflict is recorded for a prefix exactly when its entries carry at
\* least two distinct country codes; the record holds the (registry, cc, date)
\* of every entry of the prefix, and its chosen triple is that of the entry
\* emitted for the prefix.
C4_ConflictRecords ==
    dedup.pc = "done" =>
        LET prefixes == { e.prefix : e \in SeqToSet(dedup.entries) }
            recs == dedup.conflicts
            RecsOf(p) == { k \in 1..Len(recs) : recs[k].prefix = NetToStr(p) }
        IN  /\ \A k \in 1..Len(recs) : \E p \in prefixes : recs[k].prefix = NetToStr(p)
            /\ \A p \in prefixes :
                 LET group == PrefixGroup(dedup.entries, p)
                     ccs == { e.cc : e \in EntriesOf(dedup.entries, p) }
                 IN  /\ (RecsOf(p) # {}) <=> (Cardinality(ccs) >= 2)
                     /\ Cardinality(RecsOf(p)) <= 1
                     /\ \A k \in RecsOf(p) :
                          /\ recs[k].entries = [i \in 1..Len(group) |-> Triple(group[i])]
                          /\ \E i \in 1..Len(dedup.deduplicated) :
                               /\ dedup.deduplicated[i].prefix = p
                               /\ recs[k].chosen = Triple(dedup.deduplicated[i])

\* Three entries of one prefix with two country codes between them: one record,
\* whose chosen triple is not that of the first entry.
C4_Witness ==
    /\ dedup.pc = "done"
    /\ Len(dedup.entries) = 3
    /\ Len(dedup.deduplicated) = 1
    /\ Len(dedup.conflicts) = 1
    /\ dedup.conflicts[1].chosen # dedup.conflicts[1].entries[1]
    /\ Cardinality({ dedup.entries[i].cc : i \in 1..3 }) = 2

----------------------------------------------------------------------------
(* ipaddress.collapse_addresses, as PrefixAggregator.aggregate_prefixes calls it *)

MaxPairs == 3

SetMin(S) == CHOOSE a \in S : \A b \in S : a <= b

Min(a, b) == IF a <= b THEN a ELSE b

RECURSIVE TrailingZeros(_)
TrailingZeros(n) == IF n % 2 = 1 THEN 0 ELSE 1 + TrailingZeros(n \div 2)

\* ipaddress._count_righthand_zero_bits
CountRighthandZeroBits(number, bits) ==
    IF number = 0 THEN bits ELSE Min(bits, TrailingZeros(number))

\* ipaddress.summarize_address_range
RECURSIVE summarize_address_range(_, _, _)
summarize_address_range(version, first_int, last_int) ==
    IF first_int > last_int THEN <<>>
    ELSE LET ip_bits == MaxPrefixLen(version)
             nbits == Min(CountRighthandZeroBits(first_int, ip_bits),
                          BitLength(last_int - first_int + 1) - 1)
             next == first_int + Pow2(nbits)
         IN  <<Net(version, first_int, ip_bits - nbits)>>
                \o (IF next - 1 = AllOnes(version) THEN <<>>
                    ELSE summarize_address_range(version, next, last_int))

\* ipaddress._find_address_range over sorted(set(ips)), each run summarized.
RECURSIVE SummarizeRuns(_, _)
SummarizeRuns(version, ips) ==
    IF ips = {} THEN <<>>
    ELSE LET first == SetMin(ips)
             last == CHOOSE b \in ips : /\ first..b \subseteq ips
                                        /\ b + 1 \notin ips
         IN  summarize_address_range(version, first, last)
                \o SummarizeRuns(version, ips \ (first..last))

\* network.supernet(): one bit shorter; the /0 network is its own supernet.
Supernet(net) ==
    IF net.len = 0 THEN net
    ELSE LET len == net.len - 1
             size == Pow2(MaxPrefixLen(net.version) - len)
         IN  Net(net.version, net.addr - (net.addr % size), len)

\* A mutant of MergeStep: two subnets of one supernet are never merged.
MergeStepNoMerge(to_merge, subnets) ==
    LET net == to_merge[Len(to_merge)]
        rest == SubSeq(to_merge, 1, Len(to_merge) - 1)
        supernet == Supernet(net)
    IN  IF supernet \notin DOMAIN subnets
        THEN [to_merge |-> rest, subnets |-> subnets @@ (supernet :> net)]
        ELSE [to_merge |-> rest, subnets |-> subnets]

\* One turn of the "while to_merge" loop of _collapse_addresses_internal.
MergeStep(to_merge, subnets) ==
    LET net == to_merge[Len(to_merge)]
        rest == SubSeq(to_merge, 1, Len(to_merge) - 1)
        supernet == Supernet(net)
    IN  IF supernet \notin DOMAIN subnets
        THEN [to_merge |-> rest, subnets |-> subnets @@ (supernet :> net)]
        ELSE IF subnets[supernet] # net
             THEN [to_merge |-> Append(rest, supernet),
                   subnets |-> [k \in DOMAIN subnets \ {supernet} |-> subnets[k]]]
             ELSE [to_merge |-> rest, subnets |-> subnets]

RECURSIVE MergeLoop(_, _)
MergeLoop(to_merge, subnets) ==
    IF to_merge = <<>> THEN subnets
    ELSE LET step == MergeStep(to_merge, subnets)
         IN  MergeLoop(step.to_merge, step.subnets)

\* Networks order by network address, then by netmask.
NetLess(a, b) == a.addr < b.addr \/ (a.addr = b.addr /\ a.len < b.len)

\* sorted(subnets.values())
SortedNets(S) ==
    [k \in 1..Cardinality(S) |->
        CHOOSE n \in S : Cardinality({ m \in S : NetLess(m, n) }) = k - 1]

\* The second loop of _collapse_addresses_internal: subsumed networks are skipped.
RECURSIVE SkipSubsumed(_, _, _)
SkipSubsumed(nets, k, last) ==
    IF k > Len(nets) THEN <<>>
    ELSE IF last # <<>> /\ BroadcastAddress(last[1]) >= BroadcastAddress(nets[k])
         THEN SkipSubsumed(nets, k + 1, last)
         ELSE <<nets[k]>> \o SkipSubsumed(nets, k + 1, <<nets[k]>>)

collapse_addresses_internal(addresses) ==
    LET subnets == MergeLoop(addresses, <<>>)
    IN  SkipSubsumed(SortedNets({ subnets[k] : k \in DOMAIN subnets }), 1, <<>>)

\* collapse_addresses for networks of one version: the host networks are
\* summarized run by run, then everything is collapsed.
collapse_addresses(version, prefixes) ==
    LET IsHost(p) == p.len = MaxPrefixLen(version)
        IsNet(p) == p.len # MaxPrefixLen(version)
        ips == { p.addr : p \in { q \in SeqToSet(prefixes) : IsHost(q) } }
        nets == SelectSeq(prefixes, IsNet)
    IN  collapse_addresses_internal(SummarizeRuns(version, ips) \o nets)

----------------------------------------------------------------------------
(* PrefixAggregator (aggregator.py) *)

Pair(prefix, cc) == [prefix |-> prefix, cc |-> cc]

\* The distinct values of f over seq, each where it first appears.
RECURSIVE FirstSeen(_, _, _)
FirstSeen(seq, k, seen) ==
    IF k > Len(seq) THEN <<>>
    ELSE IF seq[k] \in seen THEN FirstSeen(seq, k + 1, seen)
         ELSE <<seq[k]>> \o FirstSeen(seq, k + 1, seen \cup {seq[k]})

\* groups[cc][ip_version]: the prefixes of one bucket, in input order.
Bucket(prefix_cc_pairs, cc, version) ==
    LET In(x) == x.cc = cc /\ x.prefix.version = version
        sel == SelectSeq(prefix_cc_pairs, In)
    IN  [i \in 1..Len(sel) |-> sel[i].prefix]

\* The keys of groups[cc], in the order of the dict.
VersionsOf(prefix_cc_pairs, cc) ==
    LET Of(x) == x.cc = cc
        sel == SelectSeq(prefix_cc_pairs, Of)
    IN  FirstSeen([i \in 1..Len(sel) |-> sel[i].prefix.version], 1, {})

\* The body of the loops over groups: one bucket collapsed and tagged.  A bucket
\* holds networks of one version, so collapse_addresses does not raise.
CollapsedBucket(prefix_cc_pairs, cc, version) ==
    LET collapsed == collapse_addresses(version, Bucket(prefix_cc_pairs, cc, version))
    IN  [i \in 1..Len(collapsed) |-> Pair(collapsed[i], cc)]

RECURSIVE BucketsOfCc(_, _, _, _)
BucketsOfCc(prefix_cc_pairs, cc, versions, k) ==
    IF k > Len(versions) THEN <<>>
    ELSE CollapsedBucket(prefix_cc_pairs, cc, versions[k])
            \o BucketsOfCc(prefix_cc_pairs, cc, versions, k + 1)

RECURSIVE AllBuckets(_, _, _)
AllBuckets(prefix_cc_pairs, ccs, k) ==
    IF k > Len(ccs) THEN <<>>
    ELSE BucketsOfCc(prefix_cc_pairs, ccs[k], VersionsOf(prefix_cc_pairs, ccs[k]), 1)
            \o AllBuckets(prefix_cc_pairs, ccs, k + 1)

\* key=lambda x: (str(type(x[0])), x[0].network_address): IPv4Network sorts
\* before IPv6Network, then the network address decides.
AggKeyLess(a, b) ==
    \/ a.prefix.version < b.prefix.version
    \/ a.prefix.version = b.prefix.version /\ a.prefix.addr < b.prefix.addr

\* list.sort(key=...): ascending and stable.
SortedByAggKey(pairs) ==
    LET n == Len(pairs)
        Before(i, j) == \/ AggKeyLess(pairs[i], pairs[j])
                        \/ ~AggKeyLess(pairs[j], pairs[i]) /\ i < j
        Rank(i) == Cardinality({ j \in 1..n : Before(j, i) })
    IN  [k \in 1..n |-> pairs[CHOOSE i \in 1..n : Rank(i) = k - 1]]

aggregate_prefixes(prefix_cc_pairs) ==
    LET ccs == FirstSeen([i \in 1..Len(prefix_cc_pairs) |-> prefix_cc_pairs[i].cc], 1, {})
    IN  SortedByAggKey(AllBuckets(prefix_cc_pairs, ccs, 1))

aggregate_entries(entries) ==
    aggregate_prefixes([i \in 1..Len(entries) |-> Pair(entries[i].prefix, entries[i].cc)])

AggPool == { Pair(p, cc) : p \in Networks(4) \cup Networks(6), cc \in Codes }

InitAgg ==
    /\ \E pairs \in SeqsUpTo(AggPool, MaxPairs) :
         agg = [pc |-> "call", prefix_cc_pairs |-> pairs, aggregated_pairs |-> <<>>]
    /\ cidr = Idle /\ radix = Idle /\ dedup = Idle /\ snap = Idle /\ upd = Idle
    /\ runs = Idle /\ eng = Idle /\ pl = Idle

AggregatePrefixes ==
    /\ agg.pc = "call"
    /\ agg' = [agg EXCEPT !.pc = "done",
                          !.aggregated_pairs = aggregate_prefixes(agg.prefix_cc_pairs)]
    /\ UNCHANGED <<cidr, radix, dedup, snap, upd, runs, eng, pl>>

SpecAgg == InitAgg /\ [][AggregatePrefixes]_vars

\* The prefixes of pairs that belong to one (cc, family) bucket.
BucketNets(pairs, cc, version) ==
    { x.prefix : x \in { y \in SeqToSet(pairs) : y.cc = cc /\ y.prefix.version = version } }

Covered(nets) == UNION { Hosts(n) : n \in nets }

\* The two halves of one shorter prefix.
Siblings(p, q) == p # q /\ p.len = q.len /\ p.len > 0 /\ Supernet(p) = Supernet(q)

\* C5: in every (cc, family) bucket the output of aggregate_prefixes covers
\* exactly the addresses the input prefixes of the bucket cover, and any two
\* output prefixes of the bucket are disjoint and not siblings; no pair is
\* emitted twice.
C5_BucketCoverage ==
    agg.pc = "done" =>
        \A cc \in Codes, version \in {4, 6} :
            LET in == BucketNets(agg.prefix_cc_pairs, cc, version)
                out == BucketNets(agg.aggregated_pairs, cc, version)
            IN  /\ Covered(out) = Covered(in)
                /\ \A p, q \in out :
                     p # q => /\ Hosts(p) \cap Hosts(q) = {}
                              /\ ~Siblings(p, q)
                /\ \A i, j \in 1..Len(agg.aggregated_pairs) :
                     agg.aggregated_pairs[i] = agg.aggregated_pairs[j] => i = j

\* A bucket of three prefixes that collapses into one shorter prefix.
C5_Witness ==
    /\ agg.pc = "done"
    /\ Len(agg.aggregated_pairs) = 1
    /\ Cardinality(SeqToSet(agg.prefix_cc_pairs)) = 3
    /\ \A i \in 1..3 : agg.prefix_cc_pairs[i].prefix.len > agg.aggregated_pairs[1].prefix.len
    /\ \E i, j \in 1..3 : agg.prefix_cc_pairs[i].prefix.len # agg.prefix_cc_pairs[j].prefix.len

UniquePrefixes(pairs) ==
    \A i, j \in 1..Len(pairs) : pairs[i].prefix = pairs[j].prefix => i = j

\* C6: for a reconciled input (unique prefixes, any country codes) no two of
\* the aggregated pairs have the same prefix, so building the trie from them
\* never inserts at a node that is already terminal.
C6_NoDuplicatePrefix ==
    (agg.pc = "done" /\ UniquePrefixes(agg.prefix_cc_pairs)) =>
        UniquePrefixes(agg.aggregated_pairs)

----------------------------------------------------------------------------
(* The snapshot: cli.update (aggregate), OutputWriter, IPLookup.load_data *)

\* RIRParser.separate_by_type
separate_by_type(entries) ==
    LET IsV4(e) == e.type = "ipv4"
        IsV6(e) == e.type = "ipv6"
    IN  [ipv4_entries |-> SelectSeq(entries, IsV4),
         ipv6_entries |-> SelectSeq(entries, IsV6)]

\* cli.update: [(p, cc) for p, cc in agg if p.version == v]
OfVersion(pairs, version) ==
    LET Is(x) == x.prefix.version = version
    IN  SelectSeq(pairs, Is)

\* sorted(entries, key=lambda x: x[0].network_address): ascending and stable.
SortedByAddress(pairs) ==
    LET n == Len(pairs)
        Before(i, j) == \/ pairs[i].prefix.addr < pairs[j].prefix.addr
                        \/ pairs[i].prefix.addr = pairs[j].prefix.addr /\ i < j
        Rank(i) == Cardinality({ j \in 1..n : Before(j, i) })
    IN  [k \in 1..n |-> pairs[CHOOSE i \in 1..n : Rank(i) = k - 1]]

\* A mutant of CsvRow: the network address alone is written, without "/len".
CsvRowAddressOnly(pair) ==
    <<[address |-> AddrToStr(pair.prefix.version, pair.prefix.addr),
       prefixlen |-> MaxPrefixLen(pair.prefix.version)], pair.cc>>

\* writer.writerow([str(prefix), cc]): a row is the list of its fields, which
\* csv.writer and csv.reader carry unchanged.
CsvRow(pair) == <<NetToStr(pair.prefix), pair.cc>>

\* The rows one "with open(...)" block of write_aggregated_csv_files writes.
CsvRows(agg_entries) ==
    LET sorted == SortedByAddress(agg_entries)
    IN  [k \in 1..Len(sorted) |-> CsvRow(sorted[k])]

\* ipaddress.IPv4Network(text) / IPv6Network(text): <<network>>, or <<>> where
\* the constructor raises ValueError (the other family's notation, an address
\* or prefix length out of range, host bits set).
StrToNet(version, text) ==
    LET addr == 4 * text.address.groups[1] + text.address.groups[2]
    IN  IF /\ text.address.syntax = (IF version = 4 THEN "dotted" ELSE "colon")
           /\ text.address.groups[1] \in 0..(AllOnes(version) \div 4)
           /\ text.address.groups[2] \in 0..3
           /\ text.prefixlen \in 0..MaxPrefixLen(version)
           /\ addr % Pow2(MaxPrefixLen(version) - text.prefixlen) = 0
        THEN <<Net(version, addr, text.prefixlen)>>
        ELSE <<>>

\* str.upper() on the country-code texts of the model.
Upper(cc) ==
    CASE cc = "aa" -> "AA"
      [] cc = "bb" -> "BB"
      [] cc = "usa" -> "USA"
      [] cc = "a1" -> "A1"
      [] OTHER -> cc

\* IPLookup._load_ipv4_data / _load_ipv6_data: the rows of one file inserted
\* in file order; a row with fewer than two fields or a prefix the constructor
\* rejects is passed over.
RECURSIVE LoadRows(_, _, _, _)
LoadRows(version, tree, rows, k) ==
    IF k > Len(rows) THEN tree
    ELSE LET row == rows[k]
             parsed == IF Len(row) >= 2 THEN StrToNet(version, row[1]) ELSE <<>>
         IN  IF parsed = <<>> THEN LoadRows(version, tree, rows, k + 1)
             ELSE LoadRows(version,
                           insert(tree, prefix_to_bits(parsed[1]), Upper(row[2]), 0),
                           rows, k + 1)

\* The prefixes the snapshot specification draws its entries from: every
\* length, with all networks of the shorter lengths and two of the longest.
SnapNetworks(version) ==
    { p \in Networks(version) : p.len <= 2 \/ p.addr <= 1 }

SnapPool ==
    { EntryOf("arin", cc, 20190101, p) :
        cc \in Codes, p \in SnapNetworks(4) \cup SnapNetworks(6) }

\* The deduplicated entries of an update run (unique prefixes), an empty data
\* directory and an engine not yet loaded.
InitSnap ==
    /\ \E entries \in SeqsUpTo(SnapPool, MaxPairs) :
         /\ \A i, j \in 1..Len(entries) : entries[i].prefix = entries[j].prefix => i = j
         /\ snap = [pc |-> "reconciled", entries |-> entries,
                    ipv4_agg_entries |-> <<>>, ipv6_agg_entries |-> <<>>,
                    ipv4_file |-> <<>>, ipv6_file |-> <<>>,
                    ipv4_tree |-> EmptyTree, ipv6_tree |-> EmptyTree,
                    loaded |-> FALSE]
    /\ cidr = Idle /\ radix = Idle /\ dedup = Idle /\ agg = Idle /\ upd = Idle
    /\ runs = Idle /\ eng = Idle /\ pl = Idle

\* cli.update, from separate_by_type to the two lists handed to the writer.
AggregateStage ==
    /\ snap.pc = "reconciled"
    /\ LET by_type == separate_by_type(snap.entries)
           ipv4_agg == aggregate_entries(by_type.ipv4_entries)
           ipv6_agg == aggregate_entries(by_type.ipv6_entries)
       IN  snap' = [snap EXCEPT !.pc = "aggregated",
                                !.ipv4_agg_entries = OfVersion(ipv4_agg, 4),
                                !.ipv6_agg_entries = OfVersion(ipv6_agg, 6)]
    /\ UNCHANGED <<cidr, radix, dedup, agg, upd, runs, eng, pl>>

\* OutputWriter.write_aggregated_csv_files, run to its end.
WriteCsvFiles ==
    /\ snap.pc = "aggregated"
    /\ snap' = [snap EXCEPT !.pc = "written",
                            !.ipv4_file = CsvRows(snap.ipv4_agg_entries),
                            !.ipv6_file = CsvRows(snap.ipv6_agg_entries)]
    /\ UNCHANGED <<cidr, radix, dedup, agg, upd, runs, eng, pl>>

\* IPLookup.load_data of a fresh engine, both files present.
LoadData ==
    /\ snap.pc = "written"
    /\ ~snap.loaded
    /\ snap' = [snap EXCEPT !.pc = "loaded",
                            !.ipv4_tree = LoadRows(4, snap.ipv4_tree, snap.ipv4_file, 1),
                            !.ipv6_tree = LoadRows(6, snap.ipv6_tree, snap.ipv6_file, 1),
                            !.loaded = TRUE]
    /\ UNCHANGED <<cidr, radix, dedup, agg, upd, runs, eng, pl>>

SpecSnap == InitSnap /\ [][AggregateStage \/ WriteCsvFiles \/ LoadData]_vars

\* Whether the rows of a file are ordered by network address and, among rows
\* of one network address, by ascending prefix length.
RowsOrdered(version, rows) ==
    \A i, j \in 1..Len(rows) :
        i < j =>
            LET a == StrToNet(version, rows[i][1])[1]
                b == StrToNet(version, rows[j][1])[1]
            IN  a.addr < b.addr \/ (a.addr = b.addr /\ a.len <= b.len)

\* C8: in each written prefix CSV the rows are ordered by numeric network
\* address and, among rows with the same network address, by ascending prefix
\* length.
C8_RowsByAddressThenLength ==
    snap.pc \in {"written", "loaded"} =>
        /\ RowsOrdered(4, snap.ipv4_file)
        /\ RowsOrdered(6, snap.ipv6_file)

\* The tree built by inserting the pairs as they are, in list order.
RECURSIVE InsertAll(_, _, _)
InsertAll(tree, pairs, k) ==
    IF k > Len(pairs) THEN tree
    ELSE InsertAll(insert(tree, prefix_to_bits(pairs[k].prefix), pairs[k].cc, 0),
                   pairs, k + 1)

\* C9: the trees load_data builds from the files write_aggregated_csv_files
\* wrote answer every address as the trees built by inserting the aggregated
\* pairs directly in list order.
C9_RoundTrip ==
    snap.pc = "loaded" =>
        /\ \A ip \in Addresses(4) :
             lookup(snap.ipv4_tree, ip_to_bits(4, ip), 0)
                = lookup(InsertAll(EmptyTree, snap.ipv4_agg_entries, 1), ip_to_bits(4, ip), 0)
        /\ \A ip \in Addresses(6) :
             lookup(snap.ipv6_tree, ip_to_bits(6, ip), 0)
                = lookup(InsertAll(EmptyTree, snap.ipv6_agg_entries, 1), ip_to_bits(6, ip), 0)

\* A loaded snapshot whose list holds one prefix twice, with two country codes:
\* both trees answer with the code inserted last.
C9_Witness ==
    /\ snap.pc = "loaded"
    /\ Len(snap.ipv4_agg_entries) = 2
    /\ snap.ipv4_agg_entries[1].prefix = snap.ipv4_agg_entries[2].prefix
    /\ snap.ipv4_agg_entries[1].cc # snap.ipv4_agg_entries[2].cc
    /\ \E ip \in Hosts(snap.ipv4_agg_entries[2].prefix) :
         lookup(snap.ipv4_tree, ip_to_bits(4, ip), 0) = snap.ipv4_agg_entries[2].cc

\* The reconciled entries of one family, as a set.
ReconciledOf(entries, version) ==
    { e \in SeqToSet(entries) : e.prefix.version = version }

\* C21: for a reconciled entry list (unique prefixes) and every address, the
\* lookup over the output of aggregate_entries, inserted in list order, returns
\* the country code of the longest reconciled prefix that holds the address.
C21_AggregationKeepsAnswers ==
    snap.pc \in {"aggregated", "written", "loaded"} =>
        /\ \A ip \in Addresses(4) :
             lookup(InsertAll(EmptyTree, snap.ipv4_agg_entries, 1), ip_to_bits(4, ip), 0)
                = LongestMatch(ReconciledOf(snap.entries, 4), ip)
        /\ \A ip \in Addresses(6) :
             lookup(InsertAll(EmptyTree, snap.ipv6_agg_entries, 1), ip_to_bits(6, ip), 0)
                = LongestMatch(ReconciledOf(snap.entries, 6), ip)

----------------------------------------------------------------------------
(* One update run writing over a committed snapshot (cli.update, and        *)
(* OutputWriter.write_aggregated_csv_files step by step)                    *)

\* The deduplicated entries of the run that wrote the committed snapshot, and
\* of the run at hand.
UpdInputs ==
    { es \in SeqsUpTo({ EntryOf("arin", "AA", 20190101, Net(4, 0, 1)),
                        EntryOf("arin", "BB", 20190101, Net(4, 4, 1)),
                        EntryOf("arin", "AA", 20190101, Net(6, 0, 1)) }, 2) :
        \A i, j \in 1..Len(es) : es[i] = es[j] => i = j }

\* The rows a complete run over the entries leaves in the CSV of one family.
SnapshotRows(entries, version) ==
    LET by_type == separate_by_type(entries)
        list == IF version = 4 THEN by_type.ipv4_entries ELSE by_type.ipv6_entries
    IN  CsvRows(OfVersion(aggregate_entries(list), version))

\* files[v] is what prefixes_ipv<v>_agg.csv holds on disk, committed[v] what the
\* last complete run left there.  cur is the family whose file is being
\* written, todo the rows not yet handed to the writer, buf the rows written
\* to the file object and not yet on disk.
InitUpdate ==
    /\ \E old \in UpdInputs, new \in UpdInputs :
         LET was == (4 :> SnapshotRows(old, 4)) @@ (6 :> SnapshotRows(old, 6))
         IN  upd = [pc |-> "pipeline", entries |-> new, committed |-> was,
                    files |-> was, agg_entries |-> (4 :> <<>>) @@ (6 :> <<>>),
                    cur |-> 4, todo |-> <<>>, buf |-> <<>>]
    /\ cidr = Idle /\ radix = Idle /\ dedup = Idle /\ agg = Idle /\ snap = Idle
    /\ runs = Idle /\ eng = Idle /\ pl = Idle

\* cli.update up to the call of the writer; nothing in the data directory's
\* processed files changes.
RunPipeline ==
    /\ upd.pc = "pipeline"
    /\ LET by_type == separate_by_type(upd.entries)
       IN  upd' = [upd EXCEPT
                !.pc = "open",
                !.agg_entries = (4 :> OfVersion(aggregate_entries(by_type.ipv4_entries), 4))
                                @@ (6 :> OfVersion(aggregate_entries(by_type.ipv6_entries), 6))]
    /\ UNCHANGED <<cidr, radix, dedup, agg, snap, runs, eng, pl>>

\* open(file, "w", ...): the file at its final path is truncated.
OpenedFile(contents) == <<>>

OpenFile ==
    /\ upd.pc = "open"
    /\ upd' = [upd EXCEPT !.pc = "rows",
                          !.files[upd.cur] = OpenedFile(upd.files[upd.cur]),
                          !.todo = CsvRows(upd.agg_entries[upd.cur]),
                          !.buf = <<>>]
    /\ UNCHANGED <<cidr, radix, dedup, agg, snap, runs, eng, pl>>

\* writer.writerow: the row goes to the file object's buffer.
WriteRow ==
    /\ upd.pc = "rows"
    /\ upd.todo # <<>>
    /\ upd' = [upd EXCEPT !.buf = Append(upd.buf, Head(upd.todo)),
                          !.todo = Tail(upd.todo)]
    /\ UNCHANGED <<cidr, radix, dedup, agg, snap, runs, eng, pl>>

\* The buffer of the file object fills and is written out.
FlushBuffer ==
    /\ upd.pc = "rows"
    /\ upd.buf # <<>>
    /\ upd' = [upd EXCEPT !.files[upd.cur] = upd.files[upd.cur] \o upd.buf,
                          !.buf = <<>>]
    /\ UNCHANGED <<cidr, radix, dedup, agg, snap, runs, eng, pl>>

\* The end of the with block: the file is flushed and closed; the IPv6 file
\* follows the IPv4 file.
CloseFile ==
    /\ upd.pc = "rows"
    /\ upd.todo = <<>>
    /\ upd' = [upd EXCEPT !.files[upd.cur] = upd.files[upd.cur] \o upd.buf,
                          !.buf = <<>>,
                          !.cur = 6,
                          !.pc = IF upd.cur = 4 THEN "open" ELSE "metadata"]
    /\ UNCHANGED <<cidr, radix, dedup, agg, snap, runs, eng, pl>>

\* write_metadata and cleanup_raw_data: the prefix files are left alone.
FinishUpdate ==
    /\ upd.pc = "metadata"
    /\ upd' = [upd EXCEPT !.pc = "done"]
    /\ UNCHANGED <<cidr, radix, dedup, agg, snap, runs, eng, pl>>

\* The caller aborts the run: what is buffered is lost, the files stay as
\* they are.
Abort ==
    /\ upd.pc \in {"pipeline", "open", "rows", "metadata"}
    /\ upd' = [upd EXCEPT !.pc = "aborted", !.buf = <<>>]
    /\ UNCHANGED <<cidr, radix, dedup, agg, snap, runs, eng, pl>>

\* A write raises OSError: the with block closes the file with some of the
\* buffer written, and update's except clause exits with status 1.
WriteError ==
    /\ upd.pc = "rows"
    /\ \E n \in 0..Len(upd.buf) :
         upd' = [upd EXCEPT !.pc = "failed",
                            !.files[upd.cur] = upd.files[upd.cur] \o SubSeq(upd.buf, 1, n),
                            !.buf = <<>>]
    /\ UNCHANGED <<cidr, radix, dedup, agg, snap, runs, eng, pl>>

NextUpdate ==
    \/ RunPipeline
    \/ OpenFile
    \/ WriteRow
    \/ FlushBuffer
    \/ CloseFile
    \/ FinishUpdate
    \/ Abort
    \/ WriteError

SpecUpdate == InitUpdate /\ [][NextUpdate]_vars

\* C7: at every point of an update run, an aborted or failed one included, each
\* prefix CSV at its final path holds either the complete committed contents or
\* the complete new contents.
C7_SnapshotNeverPartial ==
    upd.pc # "idle" =>
        \A v \in {4, 6} :
            upd.files[v] \in {upd.committed[v], SnapshotRows(upd.entries, v)}

----------------------------------------------------------------------------
(* RIRParser: lines to entries (parser.py) *)

valid_statuses == {"allocated", "assigned"}

valid_types == {"ipv4", "ipv6"}

\* A line of a delegated file.  kind tells what line.strip() and split("|")
\* make of it: "blank", "comment" (starts with #), "short" (fewer than seven
\* fields) or "record", whose first seven fields follow.  start is the address
\* the text denotes (a number outside the address space: text the constructor
\* rejects); value is <<n>> for the numeral of n and <<>> for text int()
\* rejects; date is the text itself.
Line(kind, cc, type, start, value, date, status) ==
    [kind |-> kind, cc |-> cc, type |-> type, start |-> start, value |-> value,
     date |-> date, status |-> status]

\* RIRParser._parse_date: digits that name a date give it, anything else the
\* sentinel 1900-01-01.
parse_date(date_field) ==
    CASE date_field = "20190101" -> 20190101
      [] date_field = "20200601" -> 20200601
      [] OTHER -> 19000101

\* A mutant of LinePrefixes: the IPv6 network is built without the strict
\* check of the host bits.
LinePrefixesLax(line) ==
    IF line.value = <<>> THEN <<>>
    ELSE IF line.type = "ipv4" THEN ipv4_to_cidrs(line.start, line.value[1])
    ELSE IF line.start \in Addresses(6) /\ line.value[1] \in 0..V6Bits
         THEN <<Net(6, line.start, line.value[1])>>
         ELSE <<>>

\* The prefixes _parse_line finds, <<>> where it returns None.
LinePrefixes(line) ==
    IF line.value = <<>> THEN <<>>
    ELSE IF line.type = "ipv4" THEN ipv4_to_cidrs(line.start, line.value[1])
    ELSE IF /\ line.start \in Addresses(6)
            /\ line.value[1] \in 0..V6Bits
            /\ line.start % Pow2(V6Bits - line.value[1]) = 0
         THEN <<Net(6, line.start, line.value[1])>>
         ELSE <<>>

\* A mutant of Filtered: the status is not looked at.
FilteredByTypeOnly(line) == line.type \notin valid_types

\* "if type_field not in self.valid_types or status not in self.valid_statuses"
Filtered(line) == line.type \notin valid_types \/ line.status \notin valid_statuses

\* RIRParser._parse_line: the entries of the line; <<>> stands for None and
\* for [], which parse_file treats alike.
parse_line(line, registry) ==
    IF line.kind # "record" THEN <<>>
    ELSE IF Filtered(line) THEN <<>>
    ELSE LET prefixes == LinePrefixes(line)
         IN  [k \in 1..Len(prefixes) |->
                RIREntry(registry, Upper(line.cc), line.type, line.start, line.value,
                         parse_date(line.date), line.status, prefixes[k])]

\* RIRParser.parse_file on a file that opens.
RECURSIVE parse_file(_, _, _)
parse_file(lines, registry, k) ==
    IF k > Len(lines) THEN <<>>
    ELSE parse_line(lines[k], registry) \o parse_file(lines, registry, k + 1)

\* RIRParser.parse_all_files: rir_files is the list of registries whose file
\* exists, in the order of the dict; contents gives each file's lines.
RECURSIVE parse_all_files(_, _, _)
parse_all_files(rir_files, contents, k) ==
    IF k > Len(rir_files) THEN <<>>
    ELSE parse_file(contents[rir_files[k]], rir_files[k], 1)
            \o parse_all_files(rir_files, contents, k + 1)

----------------------------------------------------------------------------
(* Two update runs over the same registry files (data_fetcher.py, cli.update) *)

LineA == Line("record", "aa", "ipv4", 0, <<4>>, "20190101", "allocated")
LineB == Line("record", "BB", "ipv4", 0, <<8>>, "20200601", "assigned")
LineC == Line("record", "AA", "ipv6", 0, <<1>>, "", "allocated")
LineD == Line("record", "BB", "ipv4", 0, <<4>>, "20190101", "allocated")
LineE == Line("record", "AA", "ipv4", 4, <<3>>, "20190101", "reserved")
LineF == Line("comment", "", "", 0, <<>>, "", "")

FileChoices == { <<>>, <<LineA>>, <<LineF, LineB>>, <<LineD, LineC, LineE>> }

\* A mutant of get_data_files: the files are listed in the order in which
\* their downloads completed.
get_data_files_as_completed(raw) ==
    LET Exists(r) == r \in raw
    IN  SelectSeq(runs.results, Exists)

\* DataFetcher.get_data_files: the registries of RIR_SOURCES, in its order,
\* whose raw file exists.
get_data_files(raw) ==
    LET Exists(r) == r \in raw
    IN  SelectSeq(RIR_SOURCES, Exists)

\* cli.update from get_data_files to write_aggregated_csv_files: the rows of
\* the two prefix CSVs.
UpdateSnapshot(raw, contents) ==
    LET rir_files == get_data_files(raw)
        all_entries == parse_all_files(rir_files, contents, 1)
        deduplicated_entries == deduplicate_entries(all_entries).deduplicated
    IN  (4 :> SnapshotRows(deduplicated_entries, 4))
            @@ (6 :> SnapshotRows(deduplicated_entries, 6))

\* contents: the lines each registry publishes, the same for both runs.
\* pending: the downloads submitted and not completed; results: the registries
\* in the order as_completed yields them; raw: the files in the raw directory.
\* first keeps the CSVs of the first run, in_order whether its downloads
\* completed in the order of RIR_SOURCES.
InitRuns ==
    /\ \E c1, c2, c3 \in FileChoices :
         runs = [pc |-> "downloading", run |-> 1,
                 contents |-> [r \in SeqToSet(RIR_SOURCES) |->
                                 CASE r = "apnic" -> c1
                                   [] r = "arin" -> c2
                                   [] r = "ripe" -> c3
                                   [] r = "lacnic" -> <<>>
                                   [] r = "afrinic" -> <<LineC>>],
                 pending |-> SeqToSet(RIR_SOURCES), results |-> <<>>, raw |-> {},
                 files |-> (4 :> <<>>) @@ (6 :> <<>>),
                 first |-> (4 :> <<>>) @@ (6 :> <<>>), in_order |-> TRUE]
    /\ cidr = Idle /\ radix = Idle /\ dedup = Idle /\ agg = Idle /\ snap = Idle
    /\ upd = Idle /\ eng = Idle /\ pl = Idle

\* download_rir_data: one of the submitted downloads completes; its file is in
\* the raw directory and as_completed yields it.
DownloadComplete ==
    /\ runs.pc = "downloading"
    /\ \E r \in runs.pending :
         runs' = [runs EXCEPT !.pending = runs.pending \ {r},
                              !.results = Append(runs.results, r),
                              !.raw = runs.raw \cup {r}]
    /\ UNCHANGED <<cidr, radix, dedup, agg, snap, upd, eng, pl>>

\* The rest of cli.update once every download has completed: parse,
\* deduplicate, aggregate, write the CSVs, remove the raw directory.  The
\* second run starts after the first.
ProcessFiles ==
    /\ runs.pc = "downloading"
    /\ runs.pending = {}
    /\ LET written == UpdateSnapshot(runs.raw, runs.contents)
       IN  IF runs.run = 1
           THEN runs' = [runs EXCEPT !.run = 2, !.first = written, !.files = written,
                                     !.in_order = (runs.results = RIR_SOURCES),
                                     !.pending = SeqToSet(RIR_SOURCES),
                                     !.results = <<>>, !.raw = {}]
           ELSE runs' = [runs EXCEPT !.pc = "done", !.files = written, !.raw = {}]
    /\ UNCHANGED <<cidr, radix, dedup, agg, snap, upd, eng, pl>>

SpecRuns == InitRuns /\ [][DownloadComplete \/ ProcessFiles]_vars

----------------------------------------------------------------------------
(* IPLookup (lookup.py): one engine instance over one data directory *)

\* A path of the data directory: the rows of the CSV file there, or no file.
File(rows) == [exists |-> TRUE, rows |-> rows]
NoFile == [exists |-> FALSE, rows |-> <<>>]

\* metadata.json when it does not exist.
Absent == "absent"

\* Python's True and False as load_data returns them.
True == "True"
False == "False"

\* ipaddress.ip_address(text): <<address>>, or <<>> where it raises ValueError.
ip_address(text) ==
    IF /\ text.syntax = "dotted"
       /\ text.groups[1] \in 0..(AllOnes(4) \div 4)
       /\ text.groups[2] \in 0..3
    THEN <<[version |-> 4, addr |-> 4 * text.groups[1] + text.groups[2]]>>
    ELSE IF /\ text.syntax = "colon"
            /\ text.groups[1] \in 0..(AllOnes(6) \div 4)
            /\ text.groups[2] \in 0..3
         THEN <<[version |-> 6, addr |-> 4 * text.groups[1] + text.groups[2]]>>
         ELSE <<>>

\* How a call ends: a returned value or a raised exception.
Return(value) == [kind |-> "return", value |-> value]
Raise(exc) == [kind |-> "raise", exc |-> exc]

\* IPLookup.__init__
NewEngine ==
    [ipv4_tree |-> EmptyTree, ipv6_tree |-> EmptyTree, metadata |-> "{}",
     loaded |-> FALSE]

\* The warnings _load_ipv4_data / _load_ipv6_data print: one for each row of
\* two or more fields whose prefix the constructor rejects.
LoadWarnings(version, rows) ==
    LET Rejected(row) == Len(row) >= 2 /\ StrToNet(version, row[1]) = <<>>
        bad == SelectSeq(rows, Rejected)
    IN  [k \in 1..Len(bad) |-> <<"Warning: Failed to load", bad[k][1]>>]

\* "if metadata_file.exists(): self.metadata = json.load(f)": the new value of
\* self.metadata, or the JSONDecodeError (a ValueError) json.load raises.
MetadataLoad(self, metadata_file) ==
    IF metadata_file = Absent THEN Return(self.metadata)
    ELSE IF metadata_file = "unparseable" THEN Raise("ValueError")
    ELSE Return("document")

\* IPLookup.load_data: the engine after the call, how the call ended and what
\* it printed.
load_data(self, dir) ==
    IF ~dir.ipv4_file.exists \/ ~dir.ipv6_file.exists
    THEN [self |-> self, outcome |-> Return(False),
          stdout |-> <<"Data files not found">>]
    ELSE LET metadata == MetadataLoad(self, dir.metadata_file)
         IN  IF metadata.kind = "raise"
             THEN [self |-> self, outcome |-> metadata, stdout |-> <<>>]
             ELSE [self |-> [self EXCEPT
                         !.metadata = metadata.value,
                         !.ipv4_tree = LoadRows(4, self.ipv4_tree, dir.ipv4_file.rows, 1),
                         !.ipv6_tree = LoadRows(6, self.ipv6_tree, dir.ipv6_file.rows, 1),
                         !.loaded = TRUE],
                   outcome |-> Return(True),
                   stdout |-> LoadWarnings(4, dir.ipv4_file.rows)
                                \o LoadWarnings(6, dir.ipv6_file.rows)]

\* "if not self.loaded: if not self.load_data(): return None": the load a
\* lookup starts, or none for an engine already loaded.
Loading(self, dir) ==
    IF self.loaded
    THEN [self |-> self, outcome |-> Return(True), stdout |-> <<>>]
    ELSE load_data(self, dir)

\* IPLookup.lookup_ip from the end of that load on.
LookupLoaded(loading, ip, ip_version) ==
    LET engine == loading.self
        ip_obj == ip_address(ip)
        ip_bits == ip_to_bits(ip_obj[1].version, ip_obj[1].addr)
    IN  IF loading.outcome.kind = "raise" THEN loading
        ELSE IF loading.outcome.value = False
        THEN [loading EXCEPT !.outcome = Return(None)]
        ELSE IF ip_obj = <<>>
        THEN [self |-> engine, outcome |-> Return(None),
              stdout |-> Append(loading.stdout, "Invalid IP address")]
        ELSE IF ip_version = "ipv4" \/ (ip_version = None /\ ip_obj[1].version = 4)
        THEN [self |-> engine, stdout |-> loading.stdout,
              outcome |-> Return(lookup(engine.ipv4_tree, ip_bits, 0))]
        ELSE IF ip_version = "ipv6" \/ (ip_version = None /\ ip_obj[1].version = 6)
        THEN [self |-> engine, stdout |-> loading.stdout,
              outcome |-> Return(lookup(engine.ipv6_tree, ip_bits, 0))]
        ELSE [self |-> engine, outcome |-> Return(None),
              stdout |-> Append(loading.stdout, "Invalid IP version hint")]

\* IPLookup.lookup_ip: the engine after the call, how the call ended and what
\* it printed.  (The load is bound as a value, so it is computed once.)
lookup_ip(self, dir, ip, ip_version) ==
    CHOOSE r \in { LookupLoaded(loading, ip, ip_version) :
                      loading \in {Loading(self, dir)} } : TRUE

\* countries.get_country_info: the static table info(cc) -> {name, currency}.
get_country_info(cc) ==
    CASE cc = "AA" -> [name |-> "Country AA", currency |-> "AAD"]
      [] cc = "BB" -> [name |-> "Country BB", currency |-> "BBD"]
      [] OTHER -> [name |-> None, currency |-> None]

\* IPLookup.lookup_full from the return of lookup_ip on.
FullResult(found, ip) ==
    LET cc == found.outcome.value
    IN  IF found.outcome.kind = "raise" THEN found
        ELSE IF cc # None   \* "if cc:" (no code of the model is empty)
        THEN [found EXCEPT !.outcome =
                Return([ip |-> ip, country_code |-> cc,
                        country_name |-> get_country_info(cc).name,
                        currency |-> get_country_info(cc).currency])]
        ELSE [found EXCEPT !.outcome =
                Return([ip |-> ip, country_code |-> None,
                        country_name |-> None, currency |-> None])]

\* IPLookup.lookup_full
lookup_full(self, dir, ip, ip_version) ==
    CHOOSE r \in { FullResult(found, ip) :
                      found \in {lookup_ip(self, dir, ip, ip_version)} } : TRUE

\* The field of the lookup_full result each single-field command prints.
Commands == {"country", "country_code", "currency"}

CommandField(result, command) ==
    CASE command = "country" -> result.country_name
      [] command = "country_code" -> result.country_code
      [] command = "currency" -> result.currency

\* click.echo(result or "Unknown"); a ValueError is echoed and exits with 1.
EchoResult(full, command) ==
    LET field == CommandField(full.outcome.value, command)
    IN  IF full.outcome.kind = "raise"
        THEN [self |-> full.self, exit |-> 1, echo |-> "Error: ValueError",
              stdout |-> full.stdout]
        ELSE [self |-> full.self, exit |-> 0,
              echo |-> IF field # None THEN field ELSE "Unknown",
              stdout |-> full.stdout]

\* cli.country / country_code_cmd / currency_cmd on the engine of get_lookup().
single_field_command(self, dir, command, ip) ==
    CHOOSE r \in { EchoResult(full, command) :
                      full \in {lookup_full(self, dir, ip, None)} } : TRUE

\* The rows a prefix CSV of the model may hold: well-formed rows, a row whose
\* prefix has host bits set, a row whose prefix is no network at all, a row of
\* a single column.
GoodRow(version, addr, len, cc) == <<NetToStr(Net(version, addr, len)), cc>>

HostBitsRow(version) ==
    <<[address |-> AddrToStr(version, 1), prefixlen |-> 1], "BB">>

UnparseableRow == <<[address |-> [syntax |-> "word", groups |-> <<>>], prefixlen |-> 0], "AA">>

OneColumnRow(version) == <<NetToStr(Net(version, 0, 0))>>

WellFormedFiles(version) ==
    { File(<<GoodRow(version, 0, 0, "AA"), GoodRow(version, 0, 1, "BB")>>),
      File(<<GoodRow(version, 4, 1, "bb")>>) }

CorruptFiles(version) ==
    { File(<<OneColumnRow(version), GoodRow(version, 0, 1, "AA"),
             HostBitsRow(version), UnparseableRow, GoodRow(version, 4, 1, "BB")>>) }

\* Whether every row of a file is a valid <cidr>,<CC> pair.
WellFormed(version, rows) ==
    \A k \in 1..Len(rows) :
        Len(rows[k]) >= 2 /\ StrToNet(version, rows[k][1]) # <<>>

\* The address texts given to the engine: the lowest, a middle and the highest
\* address of both families, an address with a group out of range, and a text
\* that is no address.
ProbeAddresses(version) == {0, AllOnes(version) \div 2, AllOnes(version)}

IpTexts ==
    { AddrToStr(4, a) : a \in ProbeAddresses(4) }
        \cup { AddrToStr(6, a) : a \in ProbeAddresses(6) }
        \cup { [syntax |-> "dotted", groups |-> <<AllOnes(4) \div 4 + 1, 0>>],
               [syntax |-> "word", groups |-> <<>>] }

Hints == {None, "ipv4", "ipv6", "ipv5"}

NoCall == [op |-> "none"]

\* A data directory in any condition, and an engine just constructed.
InitEngine ==
    /\ \E f4 \in {NoFile} \cup WellFormedFiles(4) \cup CorruptFiles(4),
          f6 \in {NoFile} \cup WellFormedFiles(6) \cup CorruptFiles(6),
          md \in {Absent, "document", "unparseable"} :
         eng = [pc |-> "ready",
                dir |-> [ipv4_file |-> f4, ipv6_file |-> f6, metadata_file |-> md],
                self |-> NewEngine,
                call |-> NoCall]
    /\ cidr = Idle /\ radix = Idle /\ dedup = Idle /\ agg = Idle /\ snap = Idle
    /\ upd = Idle /\ runs = Idle /\ pl = Idle

\* engine.load_data()
CallLoadData ==
    /\ eng.pc = "ready"
    /\ \E r \in {load_data(eng.self, eng.dir)} :
           eng' = [eng EXCEPT !.self = r.self,
                              !.call = [op |-> "load_data",
                                        outcome |-> r.outcome, stdout |-> r.stdout]]
    /\ UNCHANGED <<cidr, radix, dedup, agg, snap, upd, runs, pl>>

\* engine.lookup_ip(ip, ip_version)
CallLookupIp ==
    /\ eng.pc = "ready"
    /\ \E ip \in IpTexts, ip_version \in Hints :
         \E r \in {lookup_ip(eng.self, eng.dir, ip, ip_version)} :
             eng' = [eng EXCEPT !.self = r.self,
                                !.call = [op |-> "lookup_ip",
                                          ip |-> ip, ip_version |-> ip_version,
                                          outcome |-> r.outcome, stdout |-> r.stdout]]
    /\ UNCHANGED <<cidr, radix, dedup, agg, snap, upd, runs, pl>>

\* engine.lookup_full(ip, ip_version)
CallLookupFull ==
    /\ eng.pc = "ready"
    /\ \E ip \in IpTexts, ip_version \in Hints :
         \E r \in {lookup_full(eng.self, eng.dir, ip, ip_version)} :
             eng' = [eng EXCEPT !.self = r.self,
                                !.call = [op |-> "lookup_full",
                                          ip |-> ip, ip_version |-> ip_version,
                                          outcome |-> r.outcome, stdout |-> r.stdout]]
    /\ UNCHANGED <<cidr, radix, dedup, agg, snap, upd, runs, pl>>

\* ipmapper country <ip> / country_code <ip> / currency <ip>
SingleFieldCommand ==
    /\ eng.pc = "ready"
    /\ \E command \in Commands, ip \in IpTexts :
         \E r \in {single_field_command(eng.self, eng.dir, command, ip)} :
             eng' = [eng EXCEPT !.self = r.self,
                                !.call = [op |-> command, ip |-> ip,
                                          exit |-> r.exit, echo |-> r.echo,
                                          stdout |-> r.stdout]]
    /\ UNCHANGED <<cidr, radix, dedup, agg, snap, upd, runs, pl>>

\* An update run of another process replaces the snapshot in the data
\* directory: both prefix CSVs and metadata.json, all well formed.
SnapshotReplaced ==
    /\ eng.pc = "ready"
    /\ \E f4 \in WellFormedFiles(4), f6 \in WellFormedFiles(6) :
         /\ <<f4, f6>> # <<eng.dir.ipv4_file, eng.dir.ipv6_file>>
         /\ eng' = [eng EXCEPT !.dir = [ipv4_file |-> f4, ipv6_file |-> f6,
                                        metadata_file |-> "document"],
                               !.call = NoCall]
    /\ UNCHANGED <<cidr, radix, dedup, agg, snap, upd, runs, pl>>

NextEngine ==
    CallLoadData \/ CallLookupIp \/ CallLookupFull \/ SingleFieldCommand
        \/ SnapshotReplaced

SpecEngine == InitEngine /\ [][NextEngine]_vars

\* Whether both prefix CSVs exist in the data directory.
SnapshotPresent(dir) == dir.ipv4_file.exists /\ dir.ipv6_file.exists

\* Whether both prefix CSVs exist and hold valid rows only.
SnapshotWellFormed(dir) ==
    /\ SnapshotPresent(dir)
    /\ WellFormed(4, dir.ipv4_file.rows)
    /\ WellFormed(6, dir.ipv6_file.rows)

\* C12: for a text that is no valid IPv4 or IPv6 address, lookup_ip on an engine
\* with its data loaded ends in an invalid-address outcome, different from the
\* None it returns for a valid address that no prefix covers, and the country,
\* country_code and currency commands exit non-zero instead of printing Unknown.
C12_InvalidAddressSurfaced ==
    /\ (/\ eng.pc = "ready"
        /\ eng.call.op = "lookup_ip"
        /\ eng.self.loaded
        /\ ip_address(eng.call.ip) = <<>>)
           => eng.call.outcome # Return(None)
    /\ (/\ eng.pc = "ready"
        /\ eng.call.op \in Commands
        /\ eng.self.loaded
        /\ ip_address(eng.call.ip) = <<>>)
           => (eng.call.exit # 0 /\ eng.call.echo # "Unknown")

\* C13: when either prefix CSV is absent, lookup_ip of a valid address ends in
\* a data-unavailable outcome, different from the None it returns for a valid
\* address that no prefix covers, and the engine stays not loaded.
C13_DataUnavailableSurfaced ==
    (/\ eng.pc = "ready"
     /\ eng.call.op = "lookup_ip"
     /\ ~SnapshotPresent(eng.dir)
     /\ ip_address(eng.call.ip) # <<>>)
        => (eng.call.outcome # Return(None) /\ ~eng.self.loaded)

\* C14: when a prefix CSV holds a row that is no valid <cidr>,<CC> pair, load_data
\* ends in a data-corrupt outcome and the engine does not become loaded with the
\* remaining rows.
C14_DataCorruptSurfaced ==
    (/\ eng.pc = "ready"
     /\ eng.call.op = "load_data"
     /\ SnapshotPresent(eng.dir)
     /\ ~SnapshotWellFormed(eng.dir))
        => (eng.call.outcome # Return(True) /\ ~eng.self.loaded)

\* C15: over any calls of load_data, lookup_ip and lookup_full on one engine,
\* loaded never returns to False, and once loaded is True the IPv4 and IPv6
\* tries never change again, whatever happens to the files on disk.
C15_LoadedOnceTriesFrozen ==
    [][(eng.pc = "ready" /\ eng.self.loaded)
          => /\ eng'.self.loaded
             /\ eng'.self.ipv4_tree = eng.self.ipv4_tree
             /\ eng'.self.ipv6_tree = eng.self.ipv6_tree]_vars

\* C16: whenever both prefix CSVs are present and well formed, load_data
\* succeeds and lookup_ip answers, whether metadata.json is absent, a valid
\* document or unparseable.
C16_MetadataInformational ==
    (/\ eng.pc = "ready"
     /\ eng.call.op \in {"load_data", "lookup_ip"}
     /\ SnapshotWellFormed(eng.dir))
        => /\ eng.self.loaded
           /\ eng.call.outcome.kind = "return"
           /\ eng.call.op = "load_data" => eng.call.outcome = Return(True)

\* C20: for a valid address and a family hint, lookup_ip returns either what it
\* returns for the address without a hint or None: the address is never matched
\* against the prefixes of the other family.
C20_HintKeepsFamily ==
    (/\ eng.pc = "ready"
     /\ eng.call.op = "lookup_ip"
     /\ eng.call.ip_version \in {"ipv4", "ipv6"}
     /\ ip_address(eng.call.ip) # <<>>
     /\ eng.call.outcome.kind = "return")
        => eng.call.outcome.value
              \in {None, lookup_ip(eng.self, eng.dir, eng.call.ip, None).outcome.value}

----------------------------------------------------------------------------
(* One call of RIRParser._parse_line *)

\* The lines given to _parse_line: every kind of line, country-code texts of
\* several shapes, start addresses inside and outside the address space,
\* values that are numerals or not, and every type and status of the model.
LinePool ==
    { Line(kind, cc, type, start, value, date, status) :
        kind \in {"blank", "comment", "short", "record"},
        cc \in {"aa", "BB", "", "usa", "a1"},
        type \in {"ipv4", "ipv6", "asn"},
        start \in -1..(AllOnes(6) + 1),
        value \in {<<>>} \cup { <<n>> : n \in -1..(AllOnes(4) + 2) },
        date \in {"20190101"},
        status \in {"allocated", "assigned", "reserved"} }

InitParse ==
    /\ \E line \in LinePool :
         pl = [pc |-> "call", line |-> line, registry |-> "arin", entries |-> <<>>]
    /\ cidr = Idle /\ radix = Idle /\ dedup = Idle /\ agg = Idle /\ snap = Idle
    /\ upd = Idle /\ runs = Idle /\ eng = Idle

ParseLine ==
    /\ pl.pc = "call"
    /\ pl' = [pl EXCEPT !.pc = "done",
                        !.entries = parse_line(pl.line, pl.registry)]
    /\ UNCHANGED <<cidr, radix, dedup, agg, snap, upd, runs, eng>>

SpecParse == InitParse /\ [][ParseLine]_vars

\* C17: every prefix of every entry _parse_line emits is a network of the
\* line's family with a prefix length within the family's range and no host bit
\* set, and an ipv6 line whose start address has host bits set for its prefix
\* length emits no entry.
C17_PrefixesCanonical ==
    pl.pc = "done" =>
        /\ \A k \in 1..Len(pl.entries) :
             LET prefix == pl.entries[k].prefix
             IN  /\ prefix.version = (IF pl.line.type = "ipv4" THEN 4 ELSE 6)
                 /\ prefix.len \in 0..MaxPrefixLen(prefix.version)
                 /\ prefix.addr \in Addresses(prefix.version)
                 /\ prefix.addr % Pow2(MaxPrefixLen(prefix.version) - prefix.len) = 0
        /\ (/\ pl.line.type = "ipv6"
            /\ pl.line.value # <<>>
            /\ pl.line.value[1] \in 0..V6Bits
            /\ pl.line.start % Pow2(V6Bits - pl.line.value[1]) # 0)
               => pl.entries = <<>>

\* An ipv4 line that emits several prefixes of differing lengths.
C17_Witness ==
    /\ pl.pc = "done"
    /\ pl.line.type = "ipv4"
    /\ Len(pl.entries) >= 3
    /\ \E i, j \in 1..Len(pl.entries) : pl.entries[i].prefix.len # pl.entries[j].prefix.len

\* C18: _parse_line emits no entry for a line that is empty, starts with #, has
\* fewer than seven fields, has a type outside {ipv4, ipv6} or a status outside
\* {allocated, assigned}; every entry it emits has such a type and status.
C18_SkippedLines ==
    pl.pc = "done" =>
        /\ (\/ pl.line.kind \in {"blank", "comment", "short"}
            \/ pl.line.type \notin {"ipv4", "ipv6"}
            \/ pl.line.status \notin {"allocated", "assigned"})
               => pl.entries = <<>>
        /\ \A k \in 1..Len(pl.entries) :
             /\ pl.entries[k].type \in {"ipv4", "ipv6"}
             /\ pl.entries[k].status \in {"allocated", "assigned"}

\* A record line of status assigned that emits an entry.
C18_Witness ==
    /\ pl.pc = "done"
    /\ pl.line.kind = "record"
    /\ pl.line.status = "assigned"
    /\ pl.entries # <<>>

\* The country-code texts of the model that are two uppercase ASCII letters.
TwoUppercaseLetters == {"AA", "BB"}

\* C19: every entry the parser emits has a country code of exactly two
\* uppercase ASCII letters.
C19_CountryCodeTwoLetters ==
    pl.pc = "done" =>
        \A k \in 1..Len(pl.entries) : pl.entries[k].cc \in TwoUppercaseLetters
====
